---- MODULE Spec2Model ----
(***************************************************************************)
(* Model of the intelsk similarity-search code:                            *)
(*   - experiments/desktop/app.py: the Tk App, its UI-thread handlers, the *)
(*     face-scan and text-scan worker threads, the callbacks they post to  *)
(*     the UI thread with root.after, and the face cache file;             *)
(*   - mlservice/searcher.py: Searcher.search_by_text.                     *)
(* Vectors are one-dimensional integers, so the Euclidean face distance is *)
(* |a - b|; distances and similarity scores are integers in hundredths.    *)
(***************************************************************************)
EXTENDS Integers, Sequences, FiniteSets

(* ---------------------------------------------------------------- bounds *)
\* Files the image directory may hold (paths 1..NumPaths, in sorted order).
NumPaths == 2
\* Modification times a file may take (1..MaxMtime; 0 stands for "no file").
MaxMtime == 2
\* Worker threads the user may start in one run of the application.
MaxScans == 3
\* Changes the image directory may undergo in one run.
MaxEnvSteps == 1
\* the most enrollments and removals a run is followed through
MaxRegSteps == 2
\* Images one evaluation of the text-scan ranking ranks.
MaxRank == 4
\* Rows one call of search_by_text ranks.
MaxRows == 3
\* the longest stored table of clip_embeddings
MaxStored == 2
\* the most images of the scan that is followed for its reports
MaxTotal == 41
\* the most matches that scan is followed through
MaxMatches == 2

(* ------------------------------------------------------ program constants *)
\* app.py:455  progress cadence of the face scan
PROGRESS_EVERY == 20
\* app.py:21
BATCH_SIZE == 32
\* app.py:444  float("inf")
Inf == 1000

VARIABLES
    fs,         \* the image directory: path -> mtime, 0 when the file is absent
    disk,       \* .face_cache.json: [state, doc]
    searching,  \* App._searching
    buttons,    \* TRUE when both search buttons are enabled
    status,     \* App.status_var
    shown,      \* rows of the results frame
    model,      \* App.model is not None
    registry,   \* .face_registry.json: name -> enrolled embeddings
    queue,      \* callbacks posted with root.after(0, ...), oldest first
    threads,    \* the worker threads started so far, in start order
    closed,     \* the main window was closed (mainloop returned)
    lost,       \* cache entries held only by workers the closing ended (history)
    envSteps,   \* file-system changes so far
    regSteps,   \* enrollments and removals so far
    budget,     \* how far this run is followed: [scans, env]
    hist,       \* history: the face scan whose store is on disk, the last text scan
    rk,         \* one evaluation of the text-scan ranking (lines 620-631)
    sb,         \* one call of Searcher.search_by_text
    ld,         \* one call of Searcher._load_clip_embeddings
    pg          \* one face scan followed for its reports alone

vars == <<fs, disk, searching, buttons, status, shown, model, registry, queue,
          threads, closed, lost, envSteps, regSteps, budget, hist, rk, sb, ld, pg>>

appVars == <<fs, disk, searching, buttons, status, shown, model, registry,
             queue, threads, closed, lost, envSteps, regSteps, budget, hist>>

Paths == 1..NumPaths

(* ------------------------------------------------------------ small helpers *)
Abs(x) == IF x < 0 THEN -x ELSE x

Min2(a, b) == IF a < b THEN a ELSE b

Range(s) == {s[k] : k \in 1..Len(s)}

RECURSIVE SeqOfSet(_)
\* the elements of a finite set of integers in ascending order: sorted(...)
SeqOfSet(S) ==
    IF S = {} THEN <<>>
    ELSE LET m == CHOOSE x \in S : \A y \in S : x <= y
         IN  <<m>> \o SeqOfSet(S \ {m})

Reverse(s) == [k \in 1..Len(s) |-> s[Len(s) + 1 - k]]


(* --------------------------------------------------- the world the code reads *)
\* What face_recognition finds in the image at a path when detection succeeds:
\* the encodings of its faces (none for path 3).
Faces(p) ==
    CASE p = 1 -> <<139>>
      [] p = 2 -> <<61, 30>>
      [] p = 3 -> <<>>
      [] OTHER -> <<139>>

\* .face_registry.json as the application finds it at start-up.
InitialRegistry ==
    [bob |-> <<[source |-> 1, encoding |-> 0], [source |-> 2, encoding |-> 200]>>]

\* What the directory field may hold: nothing, the image directory the model
\* follows (fs), a directory that holds no image file, or a path that is no
\* directory.
DirInputs == {"", "photos", "empty", "nodir"}

\* a variant that takes every path for a directory
is_dir_any(image_dir) == TRUE

\* lines 354 and 515: Path(image_dir).is_dir()
is_dir(image_dir) == image_dir \in {"photos", "empty"}

\* What the user may have typed into the person, distance, query and threshold
\* fields; a number field is [ok |-> FALSE] when float() raises ValueError.
PersonInputs == {"", "bob", "zed"}
DistanceInputs ==
    {[ok |-> FALSE, val |-> 0], [ok |-> TRUE, val |-> 0],
     [ok |-> TRUE, val |-> 60], [ok |-> TRUE, val |-> 61]}
QueryInputs == {"", "cat"}
ThresholdInputs ==
    {[ok |-> FALSE, val |-> 0], [ok |-> TRUE, val |-> 0 - 5],
     [ok |-> TRUE, val |-> 50]}

\* Cosine similarity (in hundredths) of the image at a path with a query.
Similarity(p, q) ==
    IF q = "cat"
    THEN CASE p = 1 -> 60 [] p = 2 -> 90 [] p = 3 -> 45 [] OTHER -> 20
    ELSE CASE p = 1 -> 0 - 10 [] p = 2 -> 0 [] p = 3 -> 0 [] OTHER -> 0 - 30

(* ------------------------------------------------------------- face cache *)
NoEntry == [has |-> FALSE, mtime |-> 0, encodings |-> <<>>]

EmptyCache == [p \in Paths |-> NoEntry]

\* App._load_face_cache: a missing file (FileNotFoundError) or an undecodable one
\* (json.JSONDecodeError) reads as the empty mapping.
load_face_cache(file) ==
    IF file.state = "ok" THEN file.doc ELSE EmptyCache

\* a variant that writes an empty mapping
save_face_cache_empty(cache) == [state |-> "ok", doc |-> EmptyCache]

\* App._save_face_cache: the whole mapping replaces the file.
save_face_cache(cache) == [state |-> "ok", doc |-> cache]

\* What a write_text that raises leaves behind: the file was opened for
\* writing, which truncates it, and the document is cut short.
FailedWrite == [state |-> "corrupt", doc |-> EmptyCache]

(* ----------------------------------------------------------- UI callbacks *)
Msg(k, a, b, c) == [k |-> k, a |-> a, b |-> b, c |-> c]

NoMsg == Msg("", 0, 0, 0)

StatusCall(m) == [op |-> "set_status", msg |-> m, res |-> <<>>]

ShowCall(r) == [op |-> "show_results", msg |-> NoMsg, res |-> r]

FinishCall == [op |-> "finish", msg |-> NoMsg, res |-> <<>>]

(* -------------------------------------------------------- worker threads *)
NoScan ==
    [some |-> FALSE, paths |-> <<>>, mts |-> <<>>, refs |-> <<>>, maxd |-> 0,
     query |-> "", pct |-> 0, valid |-> <<>>, display |-> <<>>]

NewWorker(kind, image_dir, person, refs, maxd, query, pct) ==
    [kind |-> kind, pc |-> "enum", dir |-> image_dir, person |-> person, refs |-> refs,
     maxd |-> maxd, query |-> query, pct |-> pct,
     paths |-> <<>>, i |-> 0, cache |-> EmptyCache, snap |-> EmptyCache,
     results |-> <<>>, valid |-> <<>>, display |-> <<>>, outcome |-> "",
     calls |-> 0, saves |-> 0, mts |-> <<>>, feats |-> <<>>, inv |-> <<>>,
     prev |-> NoScan]

Workers == 1..Len(threads)

\* A thread that has ended keeps no local state.
Ended(kind, pc) == [NewWorker(kind, "", "", <<>>, 0, "", 0) EXCEPT !.pc = pc]

\* A thread whose body raised: its locals are gone, the finally block is left.
Failed(kind) == [Ended(kind, "finally") EXCEPT !.outcome = "error"]

Live(w) == threads[w].pc \notin {"done", "killed"}

Set(w, rec) == [threads EXCEPT ![w] = rec]


(* ------------------------------------------------- face scan: pure parts *)
\* fr.face_distance(reference_encodings, face_enc): one distance per reference.
face_distance(refs, enc) == [k \in 1..Len(refs) |-> Abs(refs[k] - enc)]

RECURSIVE np_min(_)
\* np.min over a non-empty array
np_min(d) ==
    IF Len(d) = 1 THEN d[1] ELSE Min2(d[1], np_min(Tail(d)))

RECURSIVE BestDistanceFrom(_, _, _)
\* lines 444-449: the loop over the item's face encodings, from best so far
BestDistanceFrom(best, encs, refs) ==
    IF encs = <<>> THEN best
    ELSE LET min_dist == np_min(face_distance(refs, Head(encs)))
         IN  BestDistanceFrom(IF min_dist < best THEN min_dist ELSE best,
                              Tail(encs), refs)

\* a variant that compares only the first face of the image
BestDistanceFirstFace(encs, refs) ==
    IF encs = <<>> THEN Inf ELSE BestDistanceFrom(Inf, <<Head(encs)>>, refs)

BestDistance(encs, refs) == BestDistanceFrom(Inf, encs, refs)

\* a variant that reuses an entry only when the file is older than the entry
CacheHitOnlyIfOlder(cached, mtime) == cached.has /\ cached.mtime > mtime

\* a variant that reuses any entry, whatever its modification time
CacheHitAnyMtime(cached, mtime) == cached.has

\* line 422: the cached entry is reused only under the same modification time
CacheHit(cached, mtime) == cached.has /\ cached.mtime = mtime

\* a variant with an exclusive bound
WithinDistanceStrict(best_distance, max_distance) == best_distance < max_distance

\* line 451: the absolute threshold on the best distance
WithinDistance(best_distance, max_distance) == best_distance <= max_distance

\* line 455: a progress report is due after item number n of total
ProgressDue(n, total) == n % PROGRESS_EVERY = 0 \/ n = total

RECURSIVE InsertByDist(_, _)
\* one step of the stable ascending sort on x[1]: e goes after every element
\* whose distance is not larger
InsertByDist(sorted, e) ==
    IF sorted = <<>> THEN <<e>>
    ELSE IF e.dist < Head(sorted).dist THEN <<e>> \o sorted
    ELSE <<Head(sorted)>> \o InsertByDist(Tail(sorted), e)

RECURSIVE SortByDist(_)
\* line 466: results.sort(key=lambda x: x[1]), Python's stable sort
SortByDist(results) ==
    IF results = <<>> THEN <<>>
    ELSE InsertByDist(SortByDist(SubSeq(results, 1, Len(results) - 1)),
                      results[Len(results)])

\* line 467: display score 1.0 - dist (in hundredths: 100 - dist)
DisplayResults(sorted) ==
    [k \in 1..Len(sorted) |-> [path |-> sorted[k].path, score |-> 100 - sorted[k].dist]]


(* ------------------------------------------------------ UI thread: face *)
\* line 368-375: the reference encodings of a registered person
ReferenceEncodings(reg, person) ==
    [k \in 1..Len(reg[person]) |-> reg[person][k].encoding]

\* App._on_face_search (lines 342-387). The command of a disabled button is
\* never invoked, so the handler runs only while the buttons are enabled.
on_face_search(person, image_dir, dist) ==
    /\ ~closed
    /\ buttons
    /\ Len(threads) < budget.scans
    /\ IF searching
       THEN UNCHANGED appVars
       ELSE IF person = ""
       THEN /\ status' = Msg("Select a person to search for.", 0, 0, 0)
            /\ UNCHANGED <<fs, disk, searching, buttons, shown, model, registry,
                           queue, threads, closed, lost, envSteps, regSteps, budget, hist>>
       ELSE IF image_dir = "" \/ ~is_dir(image_dir)
       THEN /\ status' = Msg("Select a valid image directory.", 0, 0, 0)
            /\ UNCHANGED <<fs, disk, searching, buttons, shown, model, registry,
                           queue, threads, closed, lost, envSteps, regSteps, budget, hist>>
       ELSE IF ~dist.ok
       THEN /\ status' = Msg("Max distance must be a number.", 0, 0, 0)
            /\ UNCHANGED <<fs, disk, searching, buttons, shown, model, registry,
                           queue, threads, closed, lost, envSteps, regSteps, budget, hist>>
       ELSE IF dist.val <= 0
       THEN /\ status' = Msg("Max distance must be positive.", 0, 0, 0)
            /\ UNCHANGED <<fs, disk, searching, buttons, shown, model, registry,
                           queue, threads, closed, lost, envSteps, regSteps, budget, hist>>
       ELSE IF person \notin DOMAIN registry
       THEN /\ status' = Msg("Person not found in registry.", 0, 0, 0)
            /\ UNCHANGED <<fs, disk, searching, buttons, shown, model, registry,
                           queue, threads, closed, lost, envSteps, regSteps, budget, hist>>
       ELSE /\ searching' = TRUE
            /\ buttons' = FALSE
            /\ shown' = <<>>
            /\ status' = Msg("Starting face search...", 0, 0, 0)
            /\ threads' = Append(threads,
                   NewWorker("face", image_dir, person,
                             ReferenceEncodings(registry, person), dist.val, "", 0))
            /\ UNCHANGED <<fs, disk, model, registry, queue, closed, lost, envSteps, regSteps, budget, hist>>
    /\ UNCHANGED <<rk, sb, ld, pg>>

(* --------------------------------------------------- face worker thread *)
\* lines 398-401 and 543-546: the image files of the directory, sorted
ListImages(image_dir) ==
    IF image_dir = "photos" THEN SeqOfSet({p \in Paths : fs[p] # 0}) ELSE <<>>

\* lines 398-408: enumeration. An empty directory posts the status and
\* _finish_face_search and returns, which still runs the finally block.
run_face_search_enumerate(w) ==
    LET t == threads[w]
        image_paths == ListImages(t.dir)
    IN  /\ ~closed
        /\ t.kind = "face" /\ t.pc = "enum"
        /\ IF image_paths = <<>>
           THEN /\ queue' = queue \o <<StatusCall(Msg("No images found in directory.", 0, 0, 0)),
                                       FinishCall>>
                /\ threads' = Set(w, [t EXCEPT !.pc = "finally", !.outcome = "noimages"])
           ELSE /\ queue' = Append(queue,
                                   StatusCall(Msg("Scanning images", Len(image_paths), 0, 0)))
                /\ threads' = Set(w, [t EXCEPT !.pc = "load", !.paths = image_paths])
        /\ UNCHANGED <<fs, disk, searching, buttons, status, shown, model, registry,
                       closed, lost, envSteps, regSteps, budget, hist, rk, sb, ld, pg>>

\* a variant whose read of an unparsable cache file raises, which the except
\* clause of the worker reports
run_face_search_load_strict(w) ==
    LET t == threads[w]
        cache == load_face_cache(disk)
    IN  /\ ~closed
        /\ t.kind = "face" /\ t.pc = "load"
        /\ IF disk.state = "corrupt"
           THEN /\ queue' = Append(queue, StatusCall(Msg("Error", 0, 0, 0)))
                /\ threads' = Set(w, Failed(t.kind))
           ELSE /\ threads' = Set(w, [t EXCEPT !.pc = "loop", !.cache = cache,
                                               !.snap = cache, !.prev = hist.face])
                /\ UNCHANGED queue
        /\ UNCHANGED <<fs, disk, searching, buttons, status, shown, model, registry,
                       closed, lost, envSteps, regSteps, budget, hist, rk, sb, ld, pg>>

\* lines 410-411: the cache snapshot is read once, before the first item
run_face_search_load(w) ==
    LET t == threads[w]
        cache == load_face_cache(disk)
    IN  /\ ~closed
        /\ t.kind = "face" /\ t.pc = "load"
        /\ threads' = Set(w, [t EXCEPT !.pc = "loop", !.cache = cache, !.snap = cache,
                                       !.prev = hist.face])
        /\ UNCHANGED <<fs, disk, searching, buttons, status, shown, model, registry,
                       queue, closed, lost, envSteps, regSteps, budget, hist, rk, sb, ld, pg>>

\* a variant that takes the item from a fresh listing of the directory
CandidateRelisted(t) ==
    LET listed == ListImages(t.dir)
    IN  IF t.i + 1 <= Len(listed) THEN listed[t.i + 1] ELSE t.paths[t.i + 1]

\* line 413: for i, path in enumerate(image_paths), over the list built at 398
Candidate(t) == t.paths[t.i + 1]

\* lines 413-460: one iteration of the loop over image_paths
run_face_search_item(w) ==
    LET t == threads[w]
        total == Len(t.paths)
        path == Candidate(t)
        mtime == fs[path]
        next_pc == IF t.i + 1 = total THEN "save" ELSE "loop"
    IN  /\ ~closed
        /\ t.kind = "face" /\ t.pc = "loop" /\ t.i < total
        /\ IF mtime = 0
           THEN \* os.path.getmtime raised OSError: continue
                /\ threads' = Set(w, [t EXCEPT !.i = t.i + 1, !.pc = next_pc,
                                        !.mts = Append(t.mts, 0),
                                        !.feats = Append(t.feats, <<>>),
                                        !.inv = Append(t.inv, FALSE)])
                /\ UNCHANGED queue
           ELSE LET cached == t.cache[path]
                    hit == CacheHit(cached, mtime)
                IN  \* lines 427-434: detection and encoding, or the except clause
                    \E detected \in (IF hit THEN {TRUE} ELSE BOOLEAN) :
                      LET face_encodings ==
                              IF hit THEN cached.encodings
                              ELSE IF detected THEN Faces(path) ELSE <<>>
                          cache2 ==
                              IF hit THEN t.cache
                              ELSE [t.cache EXCEPT ![path] =
                                      [has |-> TRUE, mtime |-> mtime,
                                       encodings |-> face_encodings]]
                          best_distance == BestDistance(face_encodings, t.refs)
                          results2 ==
                              IF face_encodings # <<>>
                                 /\ WithinDistance(best_distance, t.maxd)
                              THEN Append(t.results, [path |-> path, dist |-> best_distance])
                              ELSE t.results
                      IN  /\ threads' = Set(w, [t EXCEPT !.i = t.i + 1, !.pc = next_pc,
                                                  !.cache = cache2,
                                                  !.results = results2,
                                                  !.calls = t.calls + (IF hit THEN 0 ELSE 1),
                                                  !.mts = Append(t.mts, mtime),
                                                  !.feats = Append(t.feats, face_encodings),
                                                  !.inv = Append(t.inv, ~hit)])
                          /\ queue' = IF ProgressDue(t.i + 1, total)
                                      THEN Append(queue, StatusCall(
                                               Msg("Scanning progress", t.i + 1, total,
                                                   Len(results2))))
                                      ELSE queue
        /\ UNCHANGED <<fs, disk, searching, buttons, status, shown, model, registry,
                       closed, lost, envSteps, regSteps, budget, hist, rk, sb, ld, pg>>

\* The summary history keeps of a completed face scan.
FaceSummary(t, display) ==
    [some |-> TRUE, paths |-> t.paths, mts |-> t.mts, refs |-> t.refs,
     maxd |-> t.maxd, query |-> "", pct |-> 0, valid |-> <<>>, display |-> display]

\* lines 462-478: the cache is written, the results are sorted and posted; an
\* exception of the write is reported by the except clause instead.
run_face_search_save(w) ==
    LET t == threads[w]
        display_results == DisplayResults(SortByDist(t.results))
    IN  /\ ~closed
        /\ t.kind = "face" /\ t.pc = "save"
        /\ \/ /\ disk' = save_face_cache(t.cache)
              /\ queue' = queue \o <<ShowCall(display_results),
                                     StatusCall(Msg("Done.", Len(t.results), Len(t.paths),
                                                    t.maxd))>>
              /\ threads' = Set(w, [t EXCEPT !.pc = "finally", !.outcome = "done",
                                      !.saves = t.saves + 1,
                                      !.display = display_results])
              /\ hist' = [hist EXCEPT !.face = FaceSummary(t, display_results)]
           \/ /\ disk' = FailedWrite
              /\ queue' = Append(queue, StatusCall(Msg("Error", 0, 0, 0)))
              /\ threads' = Set(w, Failed(t.kind))
              /\ hist' = [hist EXCEPT !.face = NoScan]
        /\ UNCHANGED <<fs, searching, buttons, status, shown, model, registry,
                       closed, lost, envSteps, regSteps, budget, rk, sb, ld, pg>>

\* a variant whose finally block posts nothing
run_face_search_finally_silent(w) ==
    LET t == threads[w]
    IN  /\ ~closed
        /\ t.kind = "face" /\ t.pc = "finally"
        /\ threads' = Set(w, Ended(t.kind, "done"))
        /\ UNCHANGED <<fs, disk, searching, buttons, status, shown, model, registry, queue,
                       closed, lost, envSteps, regSteps, budget, hist, rk, sb, ld, pg>>

\* lines 480-481: the finally block posts _finish_face_search on every path
run_face_search_finally(w) ==
    LET t == threads[w]
    IN  /\ ~closed
        /\ t.kind = "face" /\ t.pc = "finally"
        /\ queue' = Append(queue, FinishCall)
        /\ threads' = Set(w, Ended(t.kind, "done"))
        /\ UNCHANGED <<fs, disk, searching, buttons, status, shown, model, registry,
                       closed, lost, envSteps, regSteps, budget, hist, rk, sb, ld, pg>>


(* ------------------------------------------------- text scan: pure parts *)
\* The orders of the indices 1..n (its permutations).
IndexOrders(n) ==
    {f \in [1..n -> 1..n] : \A a, b \in 1..n : a # b => f[a] # f[b]}

\* similarities.argsort(descending=True) at line 622. torch sorts unstably
\* unless stable=True is passed, so among equal scores any order may come out:
\* every index order with non-increasing scores.
ArgsortDescending(sims) ==
    {f \in IndexOrders(Len(sims)) :
        \A k \in 1..(Len(sims) - 1) : sims[f[k]] >= sims[f[k + 1]]}

\* line 625, times 100: top_score * (threshold_pct / 100.0) if top_score > 0
\* else 0.0
Cutoff100(top_score, threshold_pct) ==
    IF top_score > 0 THEN top_score * threshold_pct ELSE 0

\* a variant with an exclusive cutoff
AboveCutoffStrict(sim, cutoff100) == sim * 100 > cutoff100

\* line 630: similarities[idx] >= cutoff
AboveCutoff(sim, cutoff100) == sim * 100 >= cutoff100

\* lines 624-631: the ranked indices at or above the cutoff, in ranked order
RankedAboveCutoff(sims, ranked_indices, threshold_pct) ==
    LET top_score == sims[ranked_indices[1]]
        cutoff100 == Cutoff100(top_score, threshold_pct)
    IN  SelectSeq(ranked_indices, LAMBDA idx : AboveCutoff(sims[idx], cutoff100))

\* lines 627-631: (image_paths[idx], similarities[idx]) of each survivor
TextResults(valid_paths, sims, kept) ==
    [k \in 1..Len(kept) |-> [path |-> valid_paths[kept[k]], score |-> sims[kept[k]]]]

\* line 621: one similarity per encoded image
Similarities(valid_paths, query) ==
    [k \in 1..Len(valid_paths) |-> Similarity(valid_paths[k], query)]

(* ------------------------------------------------------ UI thread: text *)
\* App._on_search (lines 506-538); <Return> in the query entry (line 78) calls
\* it whether or not the buttons are enabled. _save_config (529) writes only
\* .app_config.json, which no scan reads.
on_search(query, image_dir, thr) ==
    /\ ~closed
    /\ Len(threads) < budget.scans
    /\ IF searching
       THEN UNCHANGED appVars
       ELSE IF query = ""
       THEN /\ status' = Msg("Enter a query.", 0, 0, 0)
            /\ UNCHANGED <<fs, disk, searching, buttons, shown, model, registry,
                           queue, threads, closed, lost, envSteps, regSteps, budget, hist>>
       ELSE IF image_dir = "" \/ ~is_dir(image_dir)
       THEN /\ status' = Msg("Select a valid image directory.", 0, 0, 0)
            /\ UNCHANGED <<fs, disk, searching, buttons, shown, model, registry,
                           queue, threads, closed, lost, envSteps, regSteps, budget, hist>>
       ELSE IF ~thr.ok
       THEN /\ status' = Msg("Min similarity % must be a number.", 0, 0, 0)
            /\ UNCHANGED <<fs, disk, searching, buttons, shown, model, registry,
                           queue, threads, closed, lost, envSteps, regSteps, budget, hist>>
       ELSE IF ~(0 <= thr.val /\ thr.val <= 100)
       THEN /\ status' = Msg("Min similarity % must be between 0 and 100.", 0, 0, 0)
            /\ UNCHANGED <<fs, disk, searching, buttons, shown, model, registry,
                           queue, threads, closed, lost, envSteps, regSteps, budget, hist>>
       ELSE /\ searching' = TRUE
            /\ buttons' = FALSE
            /\ shown' = <<>>
            /\ status' = Msg("Starting search...", 0, 0, 0)
            /\ threads' = Append(threads, NewWorker("text", image_dir, "", <<>>, 0, query, thr.val))
            /\ UNCHANGED <<fs, disk, model, registry, queue, closed, lost, envSteps, regSteps, budget, hist>>
    /\ UNCHANGED <<rk, sb, ld, pg>>

(* --------------------------------------------------- text worker thread *)
\* lines 543-576: enumeration and the lazy model load. An empty directory
\* posts the status and _finish_search and returns through the finally block;
\* a model that cannot be loaded raises into the except clause.
run_search_enumerate(w) ==
    LET t == threads[w]
        image_paths == ListImages(t.dir)
        found == StatusCall(Msg("Found images.", Len(image_paths), 0, 0))
        loading == StatusCall(Msg("Loading model...", 0, 0, 0))
    IN  /\ ~closed
        /\ t.kind = "text" /\ t.pc = "enum"
        /\ IF image_paths = <<>>
           THEN /\ queue' = queue \o <<StatusCall(Msg("No images found in directory.", 0, 0, 0)),
                                       FinishCall>>
                /\ threads' = Set(w, [t EXCEPT !.pc = "finally", !.outcome = "noimages"])
                /\ UNCHANGED model
           ELSE \E loaded \in (IF model THEN {TRUE} ELSE BOOLEAN) :
                  IF loaded
                  THEN /\ model' = TRUE
                       /\ queue' = queue \o <<found>>
                                     \o (IF model THEN <<>> ELSE <<loading>>)
                                     \o <<StatusCall(Msg("Encoding images...", 0, 0, 0))>>
                       /\ threads' = Set(w, [t EXCEPT !.pc = "encode",
                                               !.paths = image_paths,
                                               !.prev = hist.text])
                  ELSE /\ UNCHANGED model
                       /\ queue' = queue \o <<found, loading,
                                              StatusCall(Msg("Error", 0, 0, 0))>>
                       /\ threads' = Set(w, [t EXCEPT !.pc = "finally",
                                               !.paths = image_paths,
                                               !.outcome = "error"])
        /\ UNCHANGED <<fs, disk, searching, buttons, status, shown, registry,
                       closed, lost, envSteps, regSteps, budget, hist, rk, sb, ld, pg>>

\* The sub-sequences of s: what a batch keeps when some files cannot be read.
SubSeqs(s) ==
    {SelectSeq(s, LAMBDA x : x \in K) : K \in SUBSET Range(s)}

\* lines 579-605: one batch of BATCH_SIZE paths; files that cannot be opened
\* are skipped, a batch with none left is not encoded, and an exception of the
\* encoding itself is caught by nothing but the except clause of the worker.
\* After the last batch, no features at all posts the status and
\* _finish_search and returns.
run_search_encode(w) ==
    LET t == threads[w]
        n == Len(t.paths)
        last == Min2(t.i + BATCH_SIZE, n)
        batch_paths == SubSeq(t.paths, t.i + 1, last)
        readable == SelectSeq(batch_paths, LAMBDA x : fs[x] # 0)
    IN  /\ ~closed
        /\ t.kind = "text" /\ t.pc = "encode" /\ t.i < n
        /\ \E kept \in SubSeqs(readable), encoded \in BOOLEAN :
             LET valid2 == t.valid \o kept
                 calls2 == t.calls + (IF kept = <<>> THEN 0 ELSE 1)
             IN  IF kept # <<>> /\ ~encoded
                 THEN \* lines 593-597 raise: the except clause at 641-642
                      /\ queue' = Append(queue, StatusCall(Msg("Error", 0, 0, 0)))
                      /\ threads' = Set(w, Failed(t.kind))
                 ELSE IF last < n
                 THEN /\ threads' = Set(w, [t EXCEPT !.i = last, !.valid = valid2,
                                              !.calls = calls2])
                      /\ UNCHANGED queue
                 ELSE IF valid2 = <<>>
                 THEN /\ queue' = queue \o <<StatusCall(Msg("No readable images found.", 0, 0, 0)),
                                             FinishCall>>
                      /\ threads' = Set(w, [t EXCEPT !.i = last, !.pc = "finally",
                                              !.outcome = "noreadable"])
                 ELSE /\ queue' = Append(queue, StatusCall(Msg("Encoding query...", 0, 0, 0)))
                      /\ threads' = Set(w, [t EXCEPT !.i = last, !.valid = valid2,
                                              !.calls = calls2, !.pc = "rank"])
        /\ UNCHANGED <<fs, disk, searching, buttons, status, shown, model, registry,
                       closed, lost, envSteps, regSteps, budget, hist, rk, sb, ld, pg>>

\* The summary history keeps of a completed text scan.
TextSummary(t, results) ==
    [some |-> TRUE, paths |-> t.paths, mts |-> <<>>, refs |-> <<>>, maxd |-> 0,
     query |-> t.query, pct |-> t.pct, valid |-> t.valid, display |-> results]

\* lines 610-639: the query is encoded, the images are ranked and the
\* survivors of the relative threshold are posted
run_search_rank(w) ==
    LET t == threads[w]
        sims == Similarities(t.valid, t.query)
    IN  /\ ~closed
        /\ t.kind = "text" /\ t.pc = "rank"
        /\ \E ranked_indices \in ArgsortDescending(sims), encoded \in BOOLEAN :
             LET kept == RankedAboveCutoff(sims, ranked_indices, t.pct)
                 results == TextResults(t.valid, sims, kept)
             IN  IF ~encoded
                 THEN \* lines 612-617 raise: the except clause at 641-642
                      /\ queue' = Append(queue, StatusCall(Msg("Error", 0, 0, 0)))
                      /\ threads' = Set(w, Failed(t.kind))
                      /\ UNCHANGED hist
                 ELSE /\ queue' = queue \o <<ShowCall(results),
                                             StatusCall(Msg("Done.", Len(results),
                                                            Len(t.valid), t.pct))>>
                      /\ threads' = Set(w, [t EXCEPT !.pc = "finally", !.outcome = "done",
                                              !.calls = t.calls + 1, !.display = results])
                      /\ hist' = [hist EXCEPT !.text = TextSummary(t, results)]
        /\ UNCHANGED <<fs, disk, searching, buttons, status, shown, model, registry,
                       closed, lost, envSteps, regSteps, budget, rk, sb, ld, pg>>

\* lines 644-645: the finally block posts _finish_search on every path
run_search_finally(w) ==
    LET t == threads[w]
    IN  /\ ~closed
        /\ t.kind = "text" /\ t.pc = "finally"
        /\ queue' = Append(queue, FinishCall)
        /\ threads' = Set(w, Ended(t.kind, "done"))
        /\ UNCHANGED <<fs, disk, searching, buttons, status, shown, model, registry,
                       closed, lost, envSteps, regSteps, budget, hist, rk, sb, ld, pg>>

(* ------------------------------------------ mlservice/searcher.py: ranking *)
\* np.argsort(scores) at line 55, with the default kind "quicksort", which is
\* not stable: every index order with non-decreasing scores.
ArgsortAscending(scores) ==
    {f \in IndexOrders(Len(scores)) :
        \A k \in 1..(Len(scores) - 1) : scores[f[k]] <= scores[f[k + 1]]}

\* seq[:limit] as Python slices: a negative limit drops -limit elements from
\* the end.
PySliceTo(seq, limit) ==
    IF limit >= 0
    THEN SubSeq(seq, 1, Min2(limit, Len(seq)))
    ELSE SubSeq(seq, 1, IF Len(seq) + limit > 0 THEN Len(seq) + limit ELSE 0)

RECURSIVE UntilBelow(_, _, _)
\* lines 58-68: the loop over ranked_indices, which breaks at the first score
\* below min_score
UntilBelow(ranked_indices, scores, min_score) ==
    IF ranked_indices = <<>> THEN <<>>
    ELSE IF scores[Head(ranked_indices)] < min_score THEN <<>>
    ELSE <<[id |-> Head(ranked_indices), score |-> scores[Head(ranked_indices)]]>>
         \o UntilBelow(Tail(ranked_indices), scores, min_score)

\* Searcher.search_by_text, lines 35-69, for the rows the query returned (row
\* k has id k and scores[k] against the text) and one outcome of argsort
SearchByText(scores, order, limit, min_score) ==
    IF scores = <<>> THEN <<>>
    ELSE UntilBelow(PySliceTo(Reverse(order), limit), scores, min_score)

(* ------------------------------------------- UI thread: posted callbacks *)
\* The Tk main loop runs the oldest callback posted with root.after(0, ...):
\* _set_status (491-492), _show_results (660-683) or _finish_face_search /
\* _finish_search (483-485, 647-649), which are the same two statements.
RunCallback ==
    /\ ~closed
    /\ queue # <<>>
    /\ LET c == Head(queue)
       IN  /\ queue' = Tail(queue)
           /\ status' = IF c.op = "set_status" THEN c.msg ELSE status
           /\ shown' = IF c.op = "show_results" THEN c.res ELSE shown
           /\ searching' = IF c.op = "finish" THEN FALSE ELSE searching
           /\ buttons' = IF c.op = "finish" THEN TRUE ELSE buttons
    /\ UNCHANGED <<fs, disk, model, registry, threads, closed, lost, envSteps, regSteps, budget, hist, rk, sb, ld, pg>>

\* The entries a face worker has put into its in-memory cache so far.
Unsaved(t) ==
    {[path |-> t.paths[k], entry |-> t.cache[t.paths[k]]] :
        k \in {n \in 1..t.i : t.inv[n]}}

\* main (686-689): closing the window ends root.mainloop() and the process; the
\* workers are daemon threads (385, 536) and end with it, wherever they are.
\* Nothing of the process is left but the files.
CloseWindow ==
    /\ ~closed
    /\ closed' = TRUE
    /\ lost' = UNION {Unsaved(threads[w]) :
                        w \in {x \in Workers : /\ threads[x].kind = "face"
                                               /\ threads[x].pc = "loop"}}
    /\ threads' = <<>>
    /\ queue' = <<>>
    /\ searching' = FALSE
    /\ buttons' = FALSE
    /\ status' = NoMsg
    /\ shown' = <<>>
    /\ model' = FALSE
    /\ hist' = [face |-> NoScan, text |-> NoScan]
    /\ UNCHANGED <<fs, disk, registry, envSteps, regSteps, budget, rk, sb, ld, pg>>

(* --------------------------------------------------------- face registry *)
\* What face_recognition finds in a photo picked for enrollment: photos 1 and 2
\* show one face each, photo 3 none, photo 4 two.
PhotoFaces(f) ==
    CASE f = 1 -> <<0>>
      [] f = 2 -> <<200>>
      [] f = 3 -> <<>>
      [] OTHER -> <<10, 20>>

\* What the file dialog returns: 0 when it is cancelled, else the photo picked.
PhotoInputs == 0..4

\* lines 205 and 297-298: a registry without people
NoPeople == [n \in {} |-> <<>>]

\* lines 297-302: the registry with one more embedding under name
Enroll(reg, name, source, encoding) ==
    [n \in DOMAIN reg \cup {name} |->
        IF n = name
        THEN Append(IF name \in DOMAIN reg THEN reg[name] ELSE <<>>,
                    [source |-> source, encoding |-> encoding])
        ELSE reg[n]]

\* App._on_enroll_face (lines 250-305). The dialogs are modal; the handler is
\* followed from the file dialog to its last statement. A write of the registry
\* file that fails leaves a file that reads as no people.
on_enroll_face(file_path, loads, name, wrote) ==
    /\ ~closed
    /\ regSteps < budget.reg
    /\ file_path # 0
    /\ regSteps' = regSteps + 1
    /\ IF ~loads \/ Len(PhotoFaces(file_path)) # 1 \/ name = ""
       THEN /\ status' = NoMsg
            /\ UNCHANGED registry
       ELSE IF wrote
       THEN /\ registry' = Enroll(registry, name, file_path, PhotoFaces(file_path)[1])
            /\ status' = Msg("Enrolled face.", 0, 0, 0)
       ELSE /\ registry' = NoPeople
            /\ status' = Msg("Detecting face...", 0, 0, 0)
    /\ UNCHANGED <<fs, disk, searching, buttons, shown, model, queue, threads,
                   closed, lost, envSteps, budget, hist, rk, sb, ld, pg>>

\* line 311 and 329: sorted(registry["people"].keys())
SortedNames(reg) ==
    IF DOMAIN reg = {"bob", "zed"} THEN <<"bob", "zed">>
    ELSE IF DOMAIN reg = {"bob"} THEN <<"bob">>
    ELSE IF DOMAIN reg = {"zed"} THEN <<"zed">>
    ELSE <<>>

\* a variant that empties the person's embeddings and keeps the name
RemoveEmbeddingsOnly(reg, name) == [reg EXCEPT ![name] = <<>>]

\* line 335: del registry["people"][name]
Remove(reg, name) == [n \in DOMAIN reg \ {name} |-> reg[n]]

\* App._on_remove_person (lines 320-338): sel is the selected row of the list of
\* enrolled people, 0 when none is selected (320-324 then only shows a dialog).
on_remove_person(sel, confirmed, wrote) ==
    /\ ~closed
    /\ regSteps < budget.reg
    /\ sel \in 1..Len(SortedNames(registry))
    /\ confirmed
    /\ regSteps' = regSteps + 1
    /\ IF wrote
       THEN /\ registry' = Remove(registry, SortedNames(registry)[sel])
            /\ status' = Msg("Removed person.", 0, 0, 0)
       ELSE /\ registry' = NoPeople
            /\ UNCHANGED status
    /\ UNCHANGED <<fs, disk, searching, buttons, shown, model, queue, threads,
                   closed, lost, envSteps, budget, hist, rk, sb, ld, pg>>

(* ------------------------------------------------------------ file system *)
\* The directory the scans read (iterdir at 399 and 544, getmtime at 416) is
\* live: a file may appear, disappear or be touched at any time.
ChangeFile(p, m) ==
    /\ ~closed
    /\ envSteps < budget.env
    /\ m # fs[p]
    /\ fs' = [fs EXCEPT ![p] = m]
    /\ envSteps' = envSteps + 1
    /\ UNCHANGED <<disk, searching, buttons, status, shown, model, registry, queue,
                   threads, closed, lost, regSteps, budget, hist, rk, sb, ld, pg>>

(* ------------------------------------------------------------------ Spec *)
\* A run is followed either through MaxScans scans of an unchanging directory
\* or through one scan less with MaxEnvSteps changes of the directory, or
\* through one scan with MaxRegSteps enrollments and removals, or through one
\* scan with one more change of the directory.
Budgets ==
    {[scans |-> MaxScans, env |-> 0, reg |-> 0],
     [scans |-> MaxScans - 1, env |-> MaxEnvSteps, reg |-> 0],
     [scans |-> 1, env |-> 0, reg |-> MaxRegSteps],
     [scans |-> 1, env |-> MaxEnvSteps + 1, reg |-> 0]}

RkIdle == [pc |-> "idle", scores |-> <<>>, pct |-> 0, result |-> <<>>]

SbIdle == [pc |-> "idle", rows |-> <<>>, limit |-> 0, min_score |-> 0, result |-> <<>>]

None == [some |-> FALSE, val |-> <<>>]

PgIdle ==
    [pc |-> "idle", total |-> 0, i |-> 0, matches |-> 0, queue |-> <<>>, heard |-> <<>>]

LdIdle ==
    [pc |-> "idle", table |-> <<>>, camera_ids |-> None, start_time |-> None,
     end_time |-> None, result |-> <<>>]

\* App.__init__ (31-46), over an image directory that holds every file and
\* with no cache file yet.
AppInit ==
    /\ fs = [p \in Paths |-> 1]
    /\ disk = [state |-> "missing", doc |-> EmptyCache]
    /\ searching = FALSE
    /\ buttons = TRUE
    /\ status = NoMsg
    /\ shown = <<>>
    /\ model = FALSE
    /\ registry = InitialRegistry
    /\ queue = <<>>
    /\ threads = <<>>
    /\ closed = FALSE
    /\ envSteps = 0
    /\ regSteps = 0
    /\ hist = [face |-> NoScan, text |-> NoScan]
    /\ lost = {}

Init ==
    /\ AppInit
    /\ budget \in Budgets
    /\ rk = RkIdle
    /\ sb = SbIdle
    /\ ld = LdIdle
    /\ pg = PgIdle

Next ==
    \/ \E person \in PersonInputs, image_dir \in DirInputs, dist \in DistanceInputs :
          on_face_search(person, image_dir, dist)
    \/ \E w \in Workers : run_face_search_enumerate(w)
    \/ \E w \in Workers : run_face_search_load(w)
    \/ \E w \in Workers : run_face_search_item(w)
    \/ \E w \in Workers : run_face_search_save(w)
    \/ \E w \in Workers : run_face_search_finally(w)
    \/ \E query \in QueryInputs, image_dir \in DirInputs, thr \in ThresholdInputs :
          on_search(query, image_dir, thr)
    \/ \E w \in Workers : run_search_enumerate(w)
    \/ \E w \in Workers : run_search_encode(w)
    \/ \E w \in Workers : run_search_rank(w)
    \/ \E w \in Workers : run_search_finally(w)
    \/ RunCallback
    \/ CloseWindow
    \/ \E p \in Paths, m \in 0..MaxMtime : ChangeFile(p, m)
    \/ \E file_path \in PhotoInputs, loads \in BOOLEAN, name \in PersonInputs,
          wrote \in BOOLEAN : on_enroll_face(file_path, loads, name, wrote)
    \/ \E sel \in 0..2, confirmed \in BOOLEAN, wrote \in BOOLEAN :
          on_remove_person(sel, confirmed, wrote)

Spec == Init /\ [][Next]_vars

(* -------------------------------------------- the text ranking on its own *)
RankScores == {0 - 10, 0, 20, 45, 60, 90}

RankThresholds == {0, 50, 100}

SeqsUpTo(S, lo, hi) == UNION {[1..n -> S] : n \in lo..hi}

NoBudget == [scans |-> 0, env |-> 0, reg |-> 0]

\* Any similarities of 1..MaxRank encoded images and any accepted threshold.
InitRank ==
    /\ AppInit
    /\ budget = NoBudget
    /\ sb = SbIdle
    /\ ld = LdIdle
    /\ pg = PgIdle
    /\ \E scores \in SeqsUpTo(RankScores, 1, MaxRank), pct \in RankThresholds :
          rk = [pc |-> "call", scores |-> scores, pct |-> pct, result |-> <<>>]

\* lines 620-631 of App._run_search
rank_images ==
    /\ rk.pc = "call"
    /\ \E ranked_indices \in ArgsortDescending(rk.scores) :
          rk' = [rk EXCEPT !.pc = "done",
                           !.result = RankedAboveCutoff(rk.scores, ranked_indices, rk.pct)]
    /\ UNCHANGED <<appVars, sb, ld, pg>>

NextRank == rank_images

SpecRank == InitRank /\ [][NextRank]_vars

(* --------------------------------------------------- search_by_text alone *)
RowScores == {10, 18, 30}

LimitInputs == {0 - 1, 0, 1, 2, 20}

MinScoreInputs == {18, 30}

\* Any rows the query may have returned, any limit and any min_score.
InitSearcher ==
    /\ AppInit
    /\ budget = NoBudget
    /\ rk = RkIdle
    /\ ld = LdIdle
    /\ pg = PgIdle
    /\ \E rows \in SeqsUpTo(RowScores, 0, MaxRows), limit \in LimitInputs,
          min_score \in MinScoreInputs :
          sb = [pc |-> "call", rows |-> rows, limit |-> limit,
                min_score |-> min_score, result |-> <<>>]

\* Searcher.search_by_text (lines 16-69)
search_by_text ==
    /\ sb.pc = "call"
    /\ \E order \in ArgsortAscending(sb.rows) :
          sb' = [sb EXCEPT !.pc = "done",
                           !.result = SearchByText(sb.rows, order, sb.limit, sb.min_score)]
    /\ UNCHANGED <<appVars, rk, ld, pg>>

NextSearcher == search_by_text

SpecSearcher == InitSearcher /\ [][NextSearcher]_vars


(* ------------------------------------------ _load_clip_embeddings alone *)
\* Text is a sequence of character codes. SQLite (BINARY collation) compares
\* two texts code by code, a proper prefix before the longer text.
RECURSIVE TextLeq(_, _)
TextLeq(a, b) ==
    IF a = <<>> THEN TRUE
    ELSE IF b = <<>> THEN FALSE
    ELSE IF Head(a) # Head(b) THEN Head(a) < Head(b)
    ELSE TextLeq(Tail(a), Tail(b))

\* The code of the letter T
CharT == 84

\* line 93: "T" in end_time
Contains(text, c) == \E k \in 1..Len(text) : text[k] = c

\* The text "2026-02-2d" of day d, and the text "Thh:mm:ss" of a time of day
DateText(d) == <<50, 48, 50, 54, 45, 48, 50, 45, 50, 48 + d>>

TimeText(h, m, sec) ==
    <<CharT, 48 + (h \div 10), 48 + (h % 10), 58, 48 + (m \div 10), 48 + (m % 10),
      58, 48 + (sec \div 10), 48 + (sec % 10)>>

\* line 94: "T23:59:59"
END_OF_DAY == TimeText(23, 59, 59)

Some(v) == [some |-> TRUE, val |-> v]

\* Python's truth value of an optional list or text: None, [] and "" are false
Truthy(opt) == opt.some /\ opt.val # <<>>

Days == {0, 1}

TimesOfDay == {TimeText(0, 0, 0), TimeText(14, 0, 0), TimeText(23, 59, 59)}

\* The rows of clip_embeddings: timestamps like "2026-02-20T14:00:00" (line 92)
StoredRows ==
    [camera_id : {"cam1", "cam2"},
     timestamp : {DateText(d) \o t : d \in Days, t \in TimesOfDay}]

CameraInputs == {None, Some(<<>>), Some(<<"cam1">>), Some(<<"cam1", "cam2">>)}

StartInputs ==
    {None, Some(<<>>), Some(DateText(1)), Some(DateText(0) \o TimeText(14, 0, 0))}

EndInputs ==
    {None, Some(<<>>), Some(DateText(0)), Some(DateText(0) \o TimeText(14, 0, 0)),
     Some(DateText(1) \o TimeText(0, 0, 0))}

\* lines 83-86: camera_id IN (...), when camera_ids is truthy
CameraKeeps(camera_ids, row) ==
    Truthy(camera_ids) => row.camera_id \in Range(camera_ids.val)

\* lines 87-89: timestamp >= start_time, when start_time is truthy
StartKeeps(start_time, row) ==
    Truthy(start_time) => TextLeq(start_time.val, row.timestamp)

\* a variant that compares the end bound as it was given
NormalizeEndNever(end_time) == end_time

\* lines 93-94: a bound without a "T" gets the end of the day appended
NormalizeEnd(end_time) ==
    IF Contains(end_time, CharT) THEN end_time ELSE end_time \o END_OF_DAY

\* lines 90-96: timestamp <= normalized end_time, when end_time is truthy
EndKeeps(end_time, row) ==
    Truthy(end_time) => TextLeq(row.timestamp, NormalizeEnd(end_time.val))

\* lines 79-102: the rows the query returns (row k of the table has id k)
LoadClipEmbeddings(table, camera_ids, start_time, end_time) ==
    SelectSeq([k \in 1..Len(table) |->
                  [id |-> k, camera_id |-> table[k].camera_id,
                   timestamp |-> table[k].timestamp]],
              LAMBDA row : /\ CameraKeeps(camera_ids, row)
                           /\ StartKeeps(start_time, row)
                           /\ EndKeeps(end_time, row))

\* Any stored table of up to MaxStored rows and any filters.
InitLoad ==
    /\ AppInit
    /\ budget = NoBudget
    /\ rk = RkIdle
    /\ sb = SbIdle
    /\ pg = PgIdle
    /\ \E table \in SeqsUpTo(StoredRows, 0, MaxStored), camera_ids \in CameraInputs,
          start_time \in StartInputs, end_time \in EndInputs :
          ld = [pc |-> "call", table |-> table, camera_ids |-> camera_ids,
                start_time |-> start_time, end_time |-> end_time, result |-> <<>>]

\* Searcher._load_clip_embeddings (lines 71-102)
load_clip_embeddings ==
    /\ ld.pc = "call"
    /\ ld' = [ld EXCEPT !.pc = "done",
                        !.result = LoadClipEmbeddings(ld.table, ld.camera_ids,
                                                      ld.start_time, ld.end_time)]
    /\ UNCHANGED <<appVars, rk, sb, pg>>

NextLoad == load_clip_embeddings

SpecLoad == InitLoad /\ [][NextLoad]_vars


(* ------------------------------ the reports of one face scan on their own *)
\* The scan of lines 413-481 over a directory of up to MaxTotal images, with
\* each image reduced to what the loop makes of it: skipped because getmtime
\* raised, compared without a match, or a match.
ItemOutcomes == {"skipped", "nomatch", "match"}

ProgressTotals == {1, PROGRESS_EVERY + 2, MaxTotal - 1, MaxTotal}

\* a variant that schedules the callback ahead of the pending ones
After0First(pending, call) == <<call>> \o pending

\* root.after(0, callback, *args): the callback joins the pending ones
After0(pending, call) == Append(pending, call)

\* lines 407-411: after the enumeration, "Scanning {total} images" is posted
InitProgress ==
    /\ AppInit
    /\ budget = NoBudget
    /\ rk = RkIdle
    /\ sb = SbIdle
    /\ ld = LdIdle
    /\ \E total \in ProgressTotals :
          pg = [pc |-> "loop", total |-> total, i |-> 0, matches |-> 0,
                queue |-> After0(<<>>, StatusCall(Msg("Scanning images", total, 0, 0))),
                heard |-> <<>>]

\* lines 413-460: one iteration of the loop
progress_item(outcome) ==
    LET n == pg.i + 1
        matches == pg.matches + (IF outcome = "match" THEN 1 ELSE 0)
    IN  /\ pg.pc = "loop" /\ pg.i < pg.total
        /\ outcome = "match" => pg.matches < MaxMatches
        /\ pg' = [pg EXCEPT
                    !.i = n,
                    !.pc = IF n = pg.total THEN "save" ELSE "loop",
                    !.matches = matches,
                    !.queue = IF outcome # "skipped" /\ ProgressDue(n, pg.total)
                              THEN After0(pg.queue, StatusCall(
                                       Msg("Scanning progress", n, pg.total, matches)))
                              ELSE pg.queue]
        /\ UNCHANGED <<appVars, rk, sb, ld>>

\* lines 462-478: the save, then the results and the Done summary, or the
\* error report of the except clause
progress_save(wrote) ==
    /\ pg.pc = "save"
    /\ pg' = [pg EXCEPT
                !.pc = "finally",
                !.queue = IF wrote
                          THEN After0(After0(pg.queue,
                                   ShowCall([k \in 1..pg.matches |-> k])),
                                   StatusCall(Msg("Done.", pg.matches, pg.total, 0)))
                          ELSE After0(pg.queue, StatusCall(Msg("Error", 0, 0, 0)))]
    /\ UNCHANGED <<appVars, rk, sb, ld>>

\* lines 480-481
progress_finally ==
    /\ pg.pc = "finally"
    /\ pg' = [pg EXCEPT !.pc = "done", !.queue = After0(pg.queue, FinishCall)]
    /\ UNCHANGED <<appVars, rk, sb, ld>>

\* the Tk event loop runs the oldest pending callback
progress_deliver ==
    /\ pg.pc # "idle"
    /\ pg.queue # <<>>
    /\ pg' = [pg EXCEPT !.queue = Tail(pg.queue),
                        !.heard = Append(pg.heard, Head(pg.queue))]
    /\ UNCHANGED <<appVars, rk, sb, ld>>

NextProgress ==
    \/ \E outcome \in ItemOutcomes : progress_item(outcome)
    \/ \E wrote \in BOOLEAN : progress_save(wrote)
    \/ progress_finally
    \/ progress_deliver

SpecProgress == InitProgress /\ [][NextProgress]_vars


(* ------------------------------ face scans over a directory that changes *)
\* The application followed through MaxScans face searches for a registered
\* person, with a valid distance, while the directory changes MaxEnvSteps times.
InitStore ==
    /\ AppInit
    /\ budget = [scans |-> MaxScans, env |-> MaxEnvSteps, reg |-> 0]
    /\ rk = RkIdle
    /\ sb = SbIdle
    /\ ld = LdIdle
    /\ pg = PgIdle

NextStore ==
    \/ \E image_dir \in {"photos", "empty"} :
          on_face_search("bob", image_dir, [ok |-> TRUE, val |-> 61])
    \/ \E w \in Workers : run_face_search_enumerate(w)
    \/ \E w \in Workers : run_face_search_load(w)
    \/ \E w \in Workers : run_face_search_item(w)
    \/ \E w \in Workers : run_face_search_save(w)
    \/ \E w \in Workers : run_face_search_finally(w)
    \/ RunCallback
    \/ \E p \in Paths, m \in 0..MaxMtime : ChangeFile(p, m)

SpecStore == InitStore /\ [][NextStore]_vars

(* ------------------------------------------- the application, scheduled *)
\* The application followed through MaxScans - 1 searches over an unchanging
\* directory, with the scheduling the platform gives it: a started
\* threading.Thread (lines 381-387, 532-538) is run by the operating system
\* until its target returns, and root.mainloop() (line 688) runs every
\* callback posted with root.after(0, ...) until the window is closed.
InitFair ==
    /\ AppInit
    /\ budget = [scans |-> MaxScans - 1, env |-> 0, reg |-> 0]
    /\ rk = RkIdle
    /\ sb = SbIdle
    /\ ld = LdIdle
    /\ pg = PgIdle

\* one step of worker thread w
WorkerStep(w) ==
    /\ w \in Workers
    /\ \/ run_face_search_enumerate(w)
       \/ run_face_search_load(w)
       \/ run_face_search_item(w)
       \/ run_face_search_save(w)
       \/ run_face_search_finally(w)
       \/ run_search_enumerate(w)
       \/ run_search_encode(w)
       \/ run_search_rank(w)
       \/ run_search_finally(w)

NextFair ==
    \/ \E person \in PersonInputs, image_dir \in DirInputs, dist \in DistanceInputs :
          on_face_search(person, image_dir, dist)
    \/ \E query \in QueryInputs, image_dir \in DirInputs, thr \in ThresholdInputs :
          on_search(query, image_dir, thr)
    \/ \E w \in 1..MaxScans : WorkerStep(w)
    \/ RunCallback
    \/ CloseWindow

SpecFair ==
    /\ InitFair
    /\ [][NextFair]_vars
    /\ \A w \in 1..MaxScans : WF_vars(WorkerStep(w))
    /\ WF_vars(RunCallback)

(* ================================================================ claims *)
\* The smallest distance between any of an item's encodings and any reference:
\* the minimum over the Cartesian product, written as a set.
MinDistance(encs, refs) ==
    LET D == {Abs(refs[a] - encs[b]) : a \in 1..Len(refs), b \in 1..Len(encs)}
    IN  CHOOSE d \in D : \A x \in D : d <= x

SetMax(S) == CHOOSE m \in S : \A x \in S : m >= x

FaceWorkers == {w \in Workers : threads[w].kind = "face"}

\* A scan that has delivered its result finds the scan before it unchanged: the
\* same enumeration and, for a face scan, the same modification times, reference
\* encodings and distance; for a text scan the same readable files, query and
\* threshold.
SameAsPrevious(t) ==
    /\ t.outcome = "done"
    /\ t.prev.some
    /\ t.prev.paths = t.paths
    /\ IF t.kind = "face"
       THEN t.prev.mts = t.mts /\ t.prev.refs = t.refs /\ t.prev.maxd = t.maxd
       ELSE t.prev.valid = t.valid /\ t.prev.query = t.query /\ t.prev.pct = t.pct

(* C1: at most one scan worker, text or face, is in flight at any time: a
   search request made while a started worker has not ended starts no second
   worker. *)
C1_AtMostOneWorkerInFlight ==
    Cardinality({w \in Workers : Live(w)}) <= 1

(* C2, as stated: a scan of either kind that follows a completed scan of the
   same directory with nothing changed makes no Embedding Provider call and
   returns the same ranked list. *)
C2_RepeatedScanMakesNoProviderCall ==
    \A w \in Workers :
        SameAsPrevious(threads[w]) =>
            /\ threads[w].calls = 0
            /\ threads[w].display = threads[w].prev.display

(* C2, amended: a face scan that starts from the store a completed face scan
   persisted, over the same enumeration with the same modification times,
   reference encodings and distance, makes no Embedding Provider call and
   returns the same ranked list. *)
C2_RepeatedFaceScanMakesNoProviderCall ==
    \A w \in FaceWorkers :
        SameAsPrevious(threads[w]) =>
            /\ threads[w].calls = 0
            /\ threads[w].display = threads[w].prev.display

C2_Witness ==
    \E w \in FaceWorkers :
        /\ SameAsPrevious(threads[w])
        /\ Len(threads[w].paths) = NumPaths
        /\ threads[w].display # <<>>

(* C3: an enumerated item whose modification time differs from the one in its
   cache entry is extracted again, and its entry is replaced as a whole by the
   new modification time and the newly computed features. *)
C3_FingerprintMismatchRecomputes ==
    \A w \in FaceWorkers :
        LET t == threads[w]
        IN  \A k \in 1..t.i :
              LET path == t.paths[k]
              IN  (/\ t.mts[k] # 0
                   /\ t.snap[path].has
                   /\ t.snap[path].mtime # t.mts[k])
                  => /\ t.inv[k]
                     /\ t.feats[k] \in {Faces(path), <<>>}
                     /\ t.cache[path] = [has |-> TRUE, mtime |-> t.mts[k],
                                         encodings |-> t.feats[k]]

C3_Witness ==
    \E w \in FaceWorkers :
        LET t == threads[w]
        IN  \E k \in 1..t.i :
              /\ t.mts[k] # 0
              /\ t.snap[t.paths[k]].has
              /\ t.snap[t.paths[k]].mtime # t.mts[k]
              /\ t.cache[t.paths[k]].mtime = t.mts[k]

(* C4: a scan stopped in the middle of Processing leaves in the persisted store
   the entries of exactly the items it had processed. *)
C4_StoppedScanPersistsProcessedItems ==
    closed =>
        \A e \in lost : disk.state = "ok" /\ disk.doc[e.path] = e.entry

(* C5: while a face worker is still iterating its candidates, the cache store on
   disk is the store it read at the start of the scan. *)
C5_StoreUntouchedWhileIterating ==
    \A w \in FaceWorkers :
        threads[w].pc = "loop" => load_face_cache(disk) = threads[w].snap

(* C6: search_by_text reports an empty enumeration (no row matches the filters)
   so that the caller can tell it from rows that were ranked and all fell below
   min_score. *)
C6_EmptyEnumerationIsDistinct ==
    (sb.pc = "done" /\ sb.rows = <<>>) =>
        \A scores \in SeqsUpTo(RowScores, 1, MaxRows) :
            \A order \in ArgsortAscending(scores) :
                SearchByText(scores, order, sb.limit, sb.min_score) # sb.result

(* C7: the relative threshold of the text scan. With top the highest score:
   when top > 0 an image is in the result iff score >= top * pct / 100 (scores
   0.90, 0.60, 0.45, 0.20 with pct 50 keep exactly the first three); when
   top <= 0 exactly the images with a non-negative score are. *)
C7_RelativeThreshold ==
    rk.pc = "done" =>
        LET top == SetMax(Range(rk.scores))
        IN  /\ \A idx \in 1..Len(rk.scores) :
                  (idx \in Range(rk.result)) <=>
                      IF top > 0
                      THEN rk.scores[idx] * 100 >= top * rk.pct
                      ELSE rk.scores[idx] >= 0
            /\ (top > 0 => \E idx \in Range(rk.result) : rk.scores[idx] = top)
            /\ (rk.scores = <<90, 60, 45, 20>> /\ rk.pct = 50
                  => rk.result = <<1, 2, 3>>)

C7_Witness ==
    /\ rk.pc = "done"
    /\ rk.scores = <<90, 60, 45, 20>>
    /\ rk.pct = 50
    /\ rk.result = <<1, 2, 3>>

(* C8: the absolute threshold of the face scan. An item with at least one face
   is in the result iff its smallest distance is <= max_distance; the delivered
   list is in ascending order of distance and shows 1 - distance. *)
C8_AbsoluteThreshold ==
    \A w \in FaceWorkers :
        LET t == threads[w]
            Found == {t.results[n].path : n \in 1..Len(t.results)}
        IN  /\ \A k \in 1..t.i :
                  t.feats[k] # <<>> =>
                      ((t.paths[k] \in Found) <=>
                          MinDistance(t.feats[k], t.refs) <= t.maxd)
            /\ t.outcome = "done" =>
                  /\ Len(t.display) = Cardinality(Found)
                  /\ {t.display[n].path : n \in 1..Len(t.display)} = Found
                  /\ \A n \in 1..Len(t.display) :
                        \E k \in 1..t.i :
                            /\ t.paths[k] = t.display[n].path
                            /\ t.display[n].score
                                   = 100 - MinDistance(t.feats[k], t.refs)
                  /\ \A a, b \in 1..Len(t.display) :
                        a < b => t.display[a].score >= t.display[b].score

C8_Witness ==
    \E w \in FaceWorkers :
        /\ threads[w].outcome = "done"
        /\ threads[w].maxd = 61
        /\ threads[w].display = <<[path |-> 2, score |-> 70], [path |-> 1, score |-> 39]>>

(* C9: an item's distance is the best value over the whole Cartesian product of
   its encodings and the reference encodings, and an item with no encoding,
   computed or cached, is never in the result. *)
C9_BestMatchAggregation ==
    \A w \in FaceWorkers :
        LET t == threads[w]
        IN  /\ \A n \in 1..Len(t.results) :
                  \E k \in 1..t.i :
                      /\ t.paths[k] = t.results[n].path
                      /\ t.feats[k] # <<>>
                      /\ t.results[n].dist = MinDistance(t.feats[k], t.refs)
            /\ \A k \in 1..t.i :
                  t.feats[k] = <<>> =>
                      /\ \A n \in 1..Len(t.results) : t.results[n].path # t.paths[k]
                      /\ \A n \in 1..Len(t.display) : t.display[n].path # t.paths[k]

C9_Witness ==
    \E w \in FaceWorkers :
        LET t == threads[w]
        IN  /\ t.i = 2
            /\ t.feats[1] = <<>> /\ t.mts[1] # 0 /\ ~t.inv[1]
            /\ Len(t.feats[2]) = 2 /\ Len(t.refs) = 2
            /\ t.results = <<[path |-> 2, dist |-> 30]>>

(* C10: every ranker orders its result best score first, and two items with
   equal scores keep their enumeration order. *)
C10_TiesKeepEnumerationOrder ==
    sb.pc = "done" =>
        \A a, b \in 1..Len(sb.result) :
            a < b => /\ sb.result[a].score >= sb.result[b].score
                     /\ (sb.result[a].score = sb.result[b].score
                           => sb.result[a].id < sb.result[b].id)

(* C11: search_by_text thresholds, then truncates. For every integer limit and
   every min_score the result is the first `limit` entries of the
   score-descending list of the rows with score >= min_score: it has
   min(max(limit, 0), number of such rows) entries, each with score >= min_score,
   and no omitted row that meets min_score outranks an included one. *)
C11_ThresholdThenTruncate ==
    sb.pc = "done" =>
        LET Meets == {k \in 1..Len(sb.rows) : sb.rows[k] >= sb.min_score}
            Ids == {sb.result[n].id : n \in 1..Len(sb.result)}
            cap == IF sb.limit > 0 THEN sb.limit ELSE 0
        IN  /\ Len(sb.result) <= cap
            /\ Len(sb.result) = Min2(cap, Cardinality(Meets))
            /\ Cardinality(Ids) = Len(sb.result)
            /\ Ids \subseteq Meets
            /\ \A n \in 1..Len(sb.result) : sb.result[n].score = sb.rows[sb.result[n].id]
            /\ \A a, b \in 1..Len(sb.result) :
                  a < b => sb.result[a].score >= sb.result[b].score
            /\ \A k \in Meets \ Ids : \A j \in Ids : sb.rows[j] >= sb.rows[k]

\* The day of a timestamp or date of the model, as a number.
DayOf(text) == text[10] - 48

LoadedIds == {ld.result[n].id : n \in 1..Len(ld.result)}

LdRow(k) == [id |-> k, camera_id |-> ld.table[k].camera_id,
             timestamp |-> ld.table[k].timestamp]

(* C12: end-of-day normalisation. With a date-only end bound D, every stored row
   of date D, whatever its time of day, passes the time filter and no row of a
   later date does; an end bound that carries a time is compared unchanged. *)
C12_EndOfDayNormalization ==
    (ld.pc = "done" /\ Truthy(ld.end_time)) =>
        LET end == ld.end_time.val
        IN  \A k \in 1..Len(ld.table) :
              (CameraKeeps(ld.camera_ids, LdRow(k)) /\ StartKeeps(ld.start_time, LdRow(k)))
              => IF Len(end) = 10
                 THEN (k \in LoadedIds) <=> (DayOf(ld.table[k].timestamp) <= DayOf(end))
                 ELSE (k \in LoadedIds) <=> TextLeq(ld.table[k].timestamp, end)

C12_Witness ==
    /\ ld.pc = "done"
    /\ ld.end_time = Some(DateText(0))
    /\ ld.table = <<[camera_id |-> "cam1", timestamp |-> DateText(0) \o TimeText(23, 59, 59)],
                    [camera_id |-> "cam1", timestamp |-> DateText(1) \o TimeText(0, 0, 0)]>>
    /\ LoadedIds = {1}

(* C13: the rows that are ranked are exactly the stored rows that satisfy every
   supplied filter: a supplied camera-id list, the empty list included, keeps
   only the rows whose camera_id is in it; a supplied start only rows with
   timestamp >= start; a supplied end only rows with timestamp <= the
   normalized end; a filter that is not supplied excludes nothing. *)
C13_QueryFilterSemantics ==
    ld.pc = "done" =>
        \A k \in 1..Len(ld.table) :
            (k \in LoadedIds) <=>
                /\ ld.camera_ids.some
                      => ld.table[k].camera_id \in Range(ld.camera_ids.val)
                /\ ld.start_time.some
                      => TextLeq(ld.start_time.val, ld.table[k].timestamp)
                /\ ld.end_time.some
                      => TextLeq(ld.table[k].timestamp, NormalizeEnd(ld.end_time.val))

(* C14: a duplicate enrollment is rejected and leaves the registry unchanged, so
   after any sequence of enrollments and removals no reference set holds two
   embeddings with the same provenance (source file). *)
C14_NoDuplicateProvenance ==
    \A name \in DOMAIN registry :
        \A a, b \in 1..Len(registry[name]) :
            registry[name][a].source = registry[name][b].source => a = b

(* C15: reference sets are never empty. After any sequence of enrollments,
   abandoned ones included, and removals every name in the registry has at
   least one embedding, and a removal deletes the name's entry as a whole: a
   step never shortens the list of a name it keeps. *)
C15_ReferenceSetsNonEmpty ==
    /\ [](\A name \in DOMAIN registry : Len(registry[name]) >= 1)
    /\ [][\A name \in DOMAIN registry \cap DOMAIN registry' :
              /\ Len(registry'[name]) >= Len(registry[name])
              /\ SubSeq(registry'[name], 1, Len(registry[name])) = registry[name]]_vars

C15_Witness ==
    /\ regSteps = MaxRegSteps
    /\ DOMAIN registry = {"zed"}
    /\ Len(registry["zed"]) = 1

\* The state of worker w after a step, when the step keeps its thread.
After(w) == IF w <= Len(threads') THEN threads'[w] ELSE threads[w]

(* C16: the cache read heals itself. A load from a missing or corrupt cache file
   gives the empty mapping and no error, the scan then treats every readable
   item as a miss, exactly as with an empty cache, and its save leaves a valid
   store that holds the scan's entries. *)
C16_SelfHealingCacheRead ==
    [][\A w \in FaceWorkers :
          LET t == threads[w]
              u == After(w)
          IN  /\ (t.pc = "load" /\ u.pc # "load" /\ disk.state # "ok" /\ ~closed')
                 => /\ u.pc = "loop" /\ u.outcome = ""
                    /\ u.snap = EmptyCache /\ u.cache = EmptyCache
                    /\ queue' = queue
              /\ (t.pc = "loop" /\ t.snap = EmptyCache /\ u.i = t.i + 1 /\ ~closed')
                 => (u.mts[u.i] # 0 => u.inv[u.i] /\ u.calls = t.calls + 1)
              /\ (t.pc = "save" /\ t.snap = EmptyCache /\ u.outcome = "done")
                 => /\ disk' = [state |-> "ok", doc |-> t.cache]
                    /\ \A k \in 1..t.i :
                          t.mts[k] # 0 =>
                              load_face_cache(disk')[t.paths[k]]
                                  = [has |-> TRUE, mtime |-> t.mts[k],
                                     encodings |-> t.feats[k]]]_vars

C16_Witness ==
    /\ Len(threads) = 2
    /\ threads[2].kind = "face"
    /\ threads[2].pc = "save"
    /\ disk.state = "corrupt"
    /\ \A k \in 1..threads[2].i : threads[2].inv[k]
    /\ threads[2].i = NumPaths

(* C17: a face scan that iterates its candidates reports progress after every
   20th candidate and after the last one (processed = total), whatever became
   of the candidate itself, also when its modification time could not be read. *)
C17_CompletionProgressReport ==
    [][\A w \in FaceWorkers :
          LET t == threads[w]
              u == After(w)
              total == Len(t.paths)
          IN  (t.pc = "loop" /\ u.i = t.i + 1 /\ ~closed'
                 /\ (u.i % PROGRESS_EVERY = 0 \/ u.i = total))
              => /\ Len(queue') = Len(queue) + 1
                 /\ queue'[Len(queue')].op = "set_status"
                 /\ queue'[Len(queue')].msg.k = "Scanning progress"
                 /\ queue'[Len(queue')].msg.a = u.i
                 /\ queue'[Len(queue')].msg.b = total]_vars

IsProgress(call) == call.op = "set_status" /\ call.msg.k = "Scanning progress"

IsSummary(call) == call.op = "set_status" /\ call.msg.k \in {"Done.", "Error"}

(* C18: the progress reports of a scan reach the caller with non-decreasing
   processed values, each at most total, and none of them after the scan's
   final summary. *)
C18_ProgressOrdering ==
    \A a, b \in 1..Len(pg.heard) :
        /\ IsProgress(pg.heard[a]) =>
              /\ pg.heard[a].msg.a <= pg.total
              /\ pg.heard[a].msg.b = pg.total
        /\ (a < b /\ IsProgress(pg.heard[a]) /\ IsProgress(pg.heard[b]))
              => pg.heard[a].msg.a <= pg.heard[b].msg.a
        /\ (a < b /\ IsSummary(pg.heard[a])) => ~IsProgress(pg.heard[b])

C18_Witness ==
    /\ pg.total = MaxTotal
    /\ Len(pg.heard) >= 5
    /\ IsProgress(pg.heard[2]) /\ pg.heard[2].msg.a = PROGRESS_EVERY
    /\ IsProgress(pg.heard[3]) /\ pg.heard[3].msg.a = 2 * PROGRESS_EVERY
    /\ IsProgress(pg.heard[4]) /\ pg.heard[4].msg.a = MaxTotal
    /\ IsSummary(pg.heard[Len(pg.heard)])

\* The messages with which a search request is turned down.
Rejections ==
    {Msg(k, 0, 0, 0) :
        k \in {"Select a person to search for.", "Select a valid image directory.",
               "Max distance must be a number.", "Max distance must be positive.",
               "Person not found in registry.", "Enter a query.",
               "Min similarity % must be a number.",
               "Min similarity % must be between 0 and 100."}}

(* C19: a rejected request never starts a scan. A worker is started only for a
   request that passes every validation (a query or a person, an existing
   directory, a threshold in [0, 100] or a max distance > 0, a person of the
   registry), and a step that reports a rejection changes nothing else: no
   worker, the in-flight flag still false, the buttons still enabled, the cache
   store and the shown results untouched. *)
C19_RejectedRequestsStartNoScan ==
    [][/\ Len(threads') = Len(threads) + 1 =>
             LET t == threads'[Len(threads')]
             IN  /\ ~searching
                 /\ t.dir \in {"photos", "empty"}
                 /\ t.kind = "face" =>
                       /\ t.person \in DOMAIN registry
                       /\ t.refs = ReferenceEncodings(registry, t.person)
                       /\ t.maxd > 0
                 /\ t.kind = "text" =>
                       /\ t.query # ""
                       /\ 0 <= t.pct /\ t.pct <= 100
       /\ (status' \in Rejections /\ status' # status /\ queue' = queue) =>
             /\ ~searching /\ ~searching'
             /\ buttons /\ buttons'
             /\ UNCHANGED <<fs, disk, shown, model, registry, queue, threads,
                            closed, lost, hist>>]_vars

C19_Witness ==
    /\ status = Msg("Max distance must be positive.", 0, 0, 0)
    /\ threads = <<>>
    /\ ~searching /\ buttons

(* C20: per-item failure tolerance. A failure to read or embed an item during
   Processing (modification time unreadable, image that does not load, provider
   exception) skips the item, which adds no result, and never fails the scan:
   the scan goes on to the next item, and after the last to ranking. *)
C20_PerItemFailureTolerance ==
    [][\A w \in Workers :
          LET t == threads[w]
              u == After(w)
          IN  (t.pc \in {"loop", "encode"} /\ u # t /\ ~closed') =>
                 /\ u.outcome # "error"
                 /\ u.i > t.i /\ u.paths = t.paths
                 /\ u.pc \in {t.pc, "save", "rank", "finally"}
                 /\ (t.kind = "face" /\ u.feats[u.i] = <<>>) => u.results = t.results]_vars

(* C21: snapshot consistency. The candidate list of a scan is fixed when it is
   enumerated and stays the same list while the worker runs; every readable
   file, every match and every row of the final result list belongs to it, and
   a path outside it, such as a file added to the directory afterwards, gets
   no cache entry from the scan. *)
C21_SnapshotConsistency ==
    /\ [](\A w \in Workers :
            LET t == threads[w]
            IN  /\ \A k \in 1..Len(t.results) : t.results[k].path \in Range(t.paths)
                /\ \A k \in 1..Len(t.display) : t.display[k].path \in Range(t.paths)
                /\ Range(t.valid) \subseteq Range(t.paths)
                /\ t.i <= Len(t.paths)
                /\ \A p \in Paths \ Range(t.paths) : t.cache[p] = t.snap[p])
    /\ [][\A w \in Workers :
            (threads[w].paths # <<>> /\ After(w).paths # <<>>)
                => After(w).paths = threads[w].paths]_vars

C21_Witness ==
    \E w \in Workers :
        LET t == threads[w]
        IN  /\ t.outcome = "done"
            /\ t.display # <<>>
            /\ \E p \in Paths \ Range(t.paths) : fs[p] # 0

\* The face workers that hold a cache snapshot they have not persisted yet
\* (between line 410 and line 463).
CacheHolders == {w \in FaceWorkers : threads[w].pc \in {"loop", "save"}}

(* C22: single writer on the cache store. At most one face worker at a time is
   between loading the cache snapshot and persisting it, and the store a scan
   has just persisted holds an entry for every item the scan processed as a
   miss. *)
C22_SingleCacheWriter ==
    /\ Cardinality(CacheHolders) <= 1
    /\ \A w \in FaceWorkers :
          LET t == threads[w]
          IN  (t.outcome = "done" /\ CacheHolders = {}) =>
                 \A k \in 1..t.i :
                    t.inv[k] => load_face_cache(disk)[t.paths[k]].has

\* Item k of worker t went through the except clause of lines 433-434: it was
\* extracted, and a file that shows faces gave none.
Raised(t, k) ==
    t.inv[k] /\ t.feats[k] = <<>> /\ Faces(t.paths[k]) # <<>>

(* C23: a cache entry is created only by a successful feature extraction. An
   item whose image load, face detection or encoding raised during a scan has,
   in the store the scan persists, no entry stamped with the modification time
   the scan observed, so that the next scan extracts it again. *)
C23_NoEntryForFailedExtraction ==
    \A w \in FaceWorkers :
        LET t == threads[w]
        IN  t.outcome = "done" =>
               \A k \in 1..t.i :
                  Raised(t, k) =>
                     ~CacheHit(load_face_cache(disk)[t.paths[k]], t.mts[k])

\* The paths for which worker t has put an entry into its cache (lines 436-440).
Misses(t) == {t.paths[k] : k \in {n \in 1..t.i : t.inv[n]}}

(* C24: frame of a scan on the cache. The save of a completed face scan changes
   only the entries of enumerated items that were misses: the entries of its
   cache hits and of every path it did not enumerate are in the store after the
   save as they were before it, and no path that had an entry is left without
   one. *)
C24_FrameOfScanOnCache ==
    [][\A w \in FaceWorkers :
          LET t == threads[w]
              before == load_face_cache(disk)
              after == load_face_cache(disk')
          IN  (t.pc = "save" /\ After(w).outcome = "done") =>
                 \A p \in Paths :
                    /\ before[p].has => after[p].has
                    /\ p \notin Misses(t) => after[p] = before[p]]_vars

\* The progress reports the scan has posted so far, oldest first, and its
\* Done summary when it has posted one.
Reports == SelectSeq(pg.heard \o pg.queue, IsProgress)

DoneSummaries ==
    SelectSeq(pg.heard \o pg.queue,
              LAMBDA call : call.op = "set_status" /\ call.msg.k = "Done.")

(* C25: matchesSoFar is exact. Every progress report of a face scan carries the
   number of matches among the candidates processed so far, the value never
   decreases from one report to the next, and the value of the last report is
   the length of the final result list. *)
C25_MatchesSoFarExact ==
    /\ \A a \in 1..Len(Reports) :
          /\ Reports[a].msg.c <= pg.matches
          /\ Reports[a].msg.a = pg.i => Reports[a].msg.c = pg.matches
    /\ \A a, b \in 1..Len(Reports) :
          a < b => Reports[a].msg.c <= Reports[b].msg.c
    /\ (Reports # <<>> /\ DoneSummaries # <<>>) =>
          Reports[Len(Reports)].msg.c = DoneSummaries[1].msg.a

\* What the text of a status message states: the Done messages (470-475,
\* 633-639) are built from the number of results, the number of images and the
\* threshold; the Error message (478, 642) from the exception; the other
\* messages are fixed strings.
Mentions(m) ==
    CASE m.k = "Done." -> {"processed", "matches", "threshold"}
      [] m.k = "Error" -> {"exception"}
      [] OTHER -> {}

StatusCalls(pending) == SelectSeq(pending, LAMBDA call : call.op = "set_status")

(* C26: every terminal outcome of a scan (Done, no candidates, no readable
   images, failure by exception) posts, as the last status message of the scan,
   a summary that states the counts processed, the matches found and the
   threshold applied. *)
C26_TerminalSummary ==
    [][\A w \in Workers :
          (threads[w].outcome = "" /\ After(w).outcome # "" /\ ~closed') =>
             LET posted == StatusCalls(queue')
             IN  /\ posted # <<>>
                 /\ {"processed", "matches", "threshold"}
                        \subseteq Mentions(posted[Len(posted)].msg)]_vars

(* C27: eventual release of the scan lock. Whenever a scan is in flight (the
   in-flight flag is set), the application reaches a state where the flag is
   false and both search buttons are enabled again, whichever way the worker
   ends, as long as the window is not closed. *)
C27_EventualLockRelease ==
    searching ~> (closed \/ (~searching /\ buttons))

C27_Witness ==
    /\ Len(threads) = 1
    /\ threads[1] = Ended("face", "done")
    /\ queue = <<>>
    /\ status.k = "Error"
    /\ ~searching /\ buttons

(* C28: cache coherence after a completed face scan. The store the scan
   persists holds, for every enumerated item whose modification time could be
   read, an entry with the modification time the scan observed and the features
   with which the scan scored the item, reused on a hit and computed on a
   miss. *)
C28_CacheCoherence ==
    [][\A w \in FaceWorkers :
          LET t == threads[w]
          IN  (t.pc = "save" /\ After(w).outcome = "done") =>
                 /\ disk'.state = "ok"
                 /\ \A k \in 1..t.i :
                       t.mts[k] # 0 =>
                          disk'.doc[t.paths[k]]
                             = [has |-> TRUE, mtime |-> t.mts[k],
                                encodings |-> t.feats[k]]]_vars

C28_Witness ==
    \E w \in FaceWorkers :
        LET t == threads[w]
        IN  /\ t.outcome = "done"
            /\ disk = save_face_cache(t.cache)
            /\ \E a, b \in 1..t.i :
                  /\ t.mts[a] # 0 /\ ~t.inv[a]
                  /\ t.mts[b] # 0 /\ t.inv[b]

====
